---- MODULE Spec2Model ----
(***************************************************************************)
(* Model of preparer/src/main.rs: the static graph construction done by    *)
(* main, the pad-added closure connected to decodebin (run by the engine's *)
(* streaming threads), and main's bus loop and teardown.                   *)
(***************************************************************************)
EXTENDS Integers, Sequences, FiniteSets, TLC

\* ------------------------------------------------------------------ bounds
MaxLadder == 2
NumThreads == 2

\* ------------------------------------------------------- program constants
encoder_preset == 8
target_duration == 4
fps == 30
AbortStatus == 134

bitrates == <<6, 2>>
BitrateValues == {6, 2}

\* --------------------------------------------------------------- elements
\* An element is <<owner kind, owner index, local name>>.
El(k, i, n) == <<k, i, n>>
Base(n) == El("base", 0, n)
Rung(i, n) == El("rung", i, n)
Sub(k, n) == El("sub", k, n)
SrcPad(p) == El("port", p, "src")

tee == Base("tee")
audio_queue1 == Base("audio_queue1")
dashsink == Base("dashsink")
decodebin == Base("decodebin")
filesrc == Base("filesrc")

BaseElements ==
  { filesrc, decodebin, tee, audio_queue1, Base("audioconvert"),
    Base("audioresample"), Base("audio_queue2"), Base("opusenc"),
    Base("audio_queue3"), dashsink }

StaticLinks ==
  << <<filesrc, decodebin>>,
     <<audio_queue1, Base("audioconvert")>>,
     <<Base("audioconvert"), Base("audioresample")>>,
     <<Base("audioresample"), Base("audio_queue2")>>,
     <<Base("audio_queue2"), Base("opusenc")>>,
     <<Base("opusenc"), Base("audio_queue3")>>,
     <<Base("audio_queue3"), dashsink>> >>

EncodingBranchElements(i) ==
  { Rung(i, "queue1"), Rung(i, "videoscale"), Rung(i, "capsfilter"),
    Rung(i, "videoconvert"), Rung(i, "queue2"), Rung(i, "encoder"),
    Rung(i, "queue3"), Rung(i, "parser"), Rung(i, "queue4") }

\* Mutant of EncodingBranchLinks: queue4 is never linked to dashsink.
EncodingBranchLinksNoSink(i) ==
  << <<tee, Rung(i, "queue1")>>,
     <<Rung(i, "queue1"), Rung(i, "videoscale")>>,
     <<Rung(i, "videoscale"), Rung(i, "capsfilter")>>,
     <<Rung(i, "capsfilter"), Rung(i, "videoconvert")>>,
     <<Rung(i, "videoconvert"), Rung(i, "queue2")>>,
     <<Rung(i, "queue2"), Rung(i, "encoder")>>,
     <<Rung(i, "encoder"), Rung(i, "queue3")>>,
     <<Rung(i, "queue3"), Rung(i, "parser")>>,
     <<Rung(i, "parser"), Rung(i, "queue4")>> >>

EncodingBranchLinks(i) ==
  << <<tee, Rung(i, "queue1")>>,
     <<Rung(i, "queue1"), Rung(i, "videoscale")>>,
     <<Rung(i, "videoscale"), Rung(i, "capsfilter")>>,
     <<Rung(i, "capsfilter"), Rung(i, "videoconvert")>>,
     <<Rung(i, "videoconvert"), Rung(i, "queue2")>>,
     <<Rung(i, "queue2"), Rung(i, "encoder")>>,
     <<Rung(i, "encoder"), Rung(i, "queue3")>>,
     <<Rung(i, "queue3"), Rung(i, "parser")>>,
     <<Rung(i, "parser"), Rung(i, "queue4")>>,
     <<Rung(i, "queue4"), dashsink>> >>

SubtitleBranchElements(k) ==
  { Sub(k, "queue"), Sub(k, "text_overlay"), Sub(k, "png_encoder"),
    Sub(k, "png_sink"), Sub(k, "webvtt_sink") }

\* SubtitleBranch::link: the links in program order.  The inner tee and the
\* two inner queues are created inside link and are never added to the bin.
SubtitleBranchLinks(k) ==
  << <<Sub(k, "subtitle_tee"), Sub(k, "queue")>>,
     <<Sub(k, "queue"), Sub(k, "text_overlay")>>,
     <<Sub(k, "text_overlay"), Sub(k, "inner_tee")>>,
     <<Sub(k, "inner_tee"), Sub(k, "png_queue")>>,
     <<Sub(k, "png_queue"), Sub(k, "png_encoder")>>,
     <<Sub(k, "png_encoder"), Sub(k, "png_sink")>>,
     <<Sub(k, "inner_tee"), Sub(k, "webvtt_queue")>> >>

\* ------------------------------------------------------- engine primitives
\* gst_element_link refuses two elements that do not share a parent bin.
SameBin(g, a, b) == (a \in g) <=> (b \in g)

Min(a, b) == IF a < b THEN a ELSE b

\* Index of the first link of s the engine refuses, Len(s)+1 when none;
\* envFail is the index at which the engine fails for a reason of its own.
FirstFailure(s, g, envFail) ==
  LET bad == { i \in 1..Len(s) : ~SameBin(g, s[i][1], s[i][2]) }
      firstBad == IF bad = {} THEN Len(s) + 1
                  ELSE CHOOSE i \in bad : \A j \in bad : i <= j
  IN Min(envFail, firstBad)

\* The links a sequence of `a.link(&b)?` statements leaves behind.
LinksMade(s, stop) == { s[i] : i \in 1..(stop - 1) }

SinkPeers(ls, e) == { l[1] : l \in { x \in ls : x[2] = e } }
SrcPeers(ls, e) == { l[2] : l \in { x \in ls : x[1] = e } }
\* Mutant of is_linked: the closure does not look at the input pad's peer.
is_linked_never(ls, e) == FALSE

is_linked(ls, e) == SinkPeers(ls, e) # {}

\* gst_pad_link: refused when either pad already has a peer.
PadLinkOk(ls, src, sink) == SrcPeers(ls, src) = {} /\ SinkPeers(ls, sink) = {}
PadLink(ls, src, sink) == ls \cup { <<src, sink>> }

\* ---------------------------------------------------------- format names
VideoRaw == <<"v","i","d","e","o","/","x">>
AudioRaw == <<"a","u","d","i","o","/","x">>
TextRaw == <<"t","e","x","t","/","x">>
SubtitleKate == <<"s","u","b","t","i","t","l","e","/","x">>
VideoNoSlash == <<"v","i","d","e","o">>

starts_with(s, p) == Len(s) >= Len(p) /\ SubSeq(s, 1, Len(p)) = p

\* Mutant of Classify: the video prefix is tested without its slash.
ClassifyNoSlash(name) ==
  IF starts_with(name, <<"v","i","d","e","o">>) THEN "Video"
  ELSE IF starts_with(name, <<"a","u","d","i","o","/">>) THEN "Audio"
  ELSE IF starts_with(name, <<"t","e","x","t","/">>)
          \/ starts_with(name, <<"s","u","b","t","i","t","l","e","/">>)
       THEN "Subtitle"
  ELSE "Ignored"

Classify(name) ==
  IF starts_with(name, <<"v","i","d","e","o","/">>) THEN "Video"
  ELSE IF starts_with(name, <<"a","u","d","i","o","/">>) THEN "Audio"
  ELSE IF starts_with(name, <<"t","e","x","t","/">>)
          \/ starts_with(name, <<"s","u","b","t","i","t","l","e","/">>)
       THEN "Subtitle"
  ELSE "Ignored"

\* current_caps() of each port the demultiplexer can expose: a set holding
\* the structure name, empty when the pad has no caps yet.
PortCaps ==
  << {VideoRaw}, {VideoRaw}, {AudioRaw}, {AudioRaw}, {TextRaw},
     {SubtitleKate}, {VideoNoSlash}, {} >>
Ports == 1..Len(PortCaps)
Threads == 1..NumThreads

\* ------------------------------------------------------------------ state
VARIABLES
  mainPc,       \* position of main
  ladder,       \* the bitrates vector
  branches,     \* Vec<EncodingBranch>: the configuration of each pushed rung
  graph,        \* elements added to the pipeline
  links,        \* links between elements / pads
  live,         \* objects whose weak reference still upgrades
  handler,      \* pad-added closure connected
  subtitle_track_counter,
  dirs,         \* track ids whose subtitles_<id> directory exists
  pipeState,    \* "Initial", "Playing", "Null"
  streaming,    \* the engine's streaming threads are running
  lastMsg,      \* the bus message main handled last
  exitCode,     \* -1 while the process runs
  cb            \* one record per engine thread running the closure

vars == << mainPc, ladder, branches, graph, links, live, handler,
           subtitle_track_counter, dirs, pipeState, streaming, lastMsg,
           exitCode, cb >>

mainVars == << mainPc, ladder, branches, graph, links, live, handler,
               pipeState, streaming, lastMsg >>

IdleCb == [pc |-> "idle", port |-> 0, kind |-> "none", track |-> -1, linked |-> FALSE]

Alive == exitCode = -1

InitCommon ==
  /\ mainPc = "setup"
  /\ branches = << >>
  /\ graph = {}
  /\ links = {}
  /\ live = {}
  /\ handler = FALSE
  /\ subtitle_track_counter = 0
  /\ dirs = {}
  /\ pipeState = "Initial"
  /\ streaming = FALSE
  /\ lastMsg = "none"
  /\ exitCode = -1
  /\ cb = [t \in Threads |-> IdleCb]

Init == InitCommon /\ ladder = bitrates

Ladders == UNION { [1..n -> BitrateValues] : n \in 0..MaxLadder }

InitLadder == InitCommon /\ ladder \in Ladders

\* ------------------------------------------------------------------- main
\* Mutant of Try: the error is dropped and main carries on.
TryIgnoringErr(ok, next) == next

\* The `?` operator: continue at next on Ok, return Err from main otherwise.
Try(ok, next) == IF ok THEN next ELSE "ret_err"

\* gst::init, argument check, create_dir_all of the output directory.
Setup ==
  /\ Alive /\ mainPc = "setup"
  /\ \E outcome \in {"ok", "usage", "err"} :
       /\ mainPc' = IF outcome = "usage" THEN "exited" ELSE Try(outcome = "ok", "make_base")
       /\ exitCode' = IF outcome = "usage" THEN 1 ELSE exitCode
  /\ UNCHANGED << ladder, branches, graph, links, live, handler,
                  subtitle_track_counter, dirs, pipeState, streaming, lastMsg, cb >>

\* Pipeline::new and the ten ElementFactory::make(..).build()? of the base.
MakeBase ==
  /\ Alive /\ mainPc = "make_base"
  /\ \E ok \in BOOLEAN :
       /\ mainPc' = Try(ok, "add_base")
       /\ live' = IF ok THEN {"pipeline", "tee", "audio_queue1"} ELSE {"pipeline"}
  /\ UNCHANGED << ladder, branches, graph, links, handler,
                  subtitle_track_counter, dirs, pipeState, streaming, lastMsg,
                  exitCode, cb >>

\* pipeline.add_many(&[...])?
AddBase ==
  /\ Alive /\ mainPc = "add_base"
  /\ \E ok \in BOOLEAN :
       /\ mainPc' = Try(ok, "link_static")
       /\ graph' = IF ok THEN graph \cup BaseElements ELSE graph
  /\ UNCHANGED << ladder, branches, links, live, handler,
                  subtitle_track_counter, dirs, pipeState, streaming, lastMsg,
                  exitCode, cb >>

\* filesrc.link(&decodebin)? ... audio_queue3.link(&dashsink)?
LinkStatic ==
  /\ Alive /\ mainPc = "link_static"
  /\ \E envFail \in 1..(Len(StaticLinks) + 1) :
       LET stop == FirstFailure(StaticLinks, graph, envFail) IN
       /\ links' = links \cup LinksMade(StaticLinks, stop)
       /\ mainPc' = Try(stop = Len(StaticLinks) + 1, "rung_next")
  /\ UNCHANGED << ladder, branches, graph, live, handler,
                  subtitle_track_counter, dirs, pipeState, streaming, lastMsg,
                  exitCode, cb >>

\* Mutant of RungNext: the closure is connected and the graph started
\* before the ladder loop has run.
RungNextSkipsLadder ==
  /\ Alive /\ mainPc = "rung_next"
  /\ mainPc' = "connect"
  /\ UNCHANGED << ladder, branches, graph, links, live, handler,
                  subtitle_track_counter, dirs, pipeState, streaming, lastMsg,
                  exitCode, cb >>

\* for bitrate in bitrates: the loop head.
RungNext ==
  /\ Alive /\ mainPc = "rung_next"
  /\ mainPc' = IF Len(branches) < Len(ladder) THEN "rung_new" ELSE "connect"
  /\ UNCHANGED << ladder, branches, graph, links, live, handler,
                  subtitle_track_counter, dirs, pipeState, streaming, lastMsg,
                  exitCode, cb >>

\* A u32 is kept as its two 16-bit halves; inputs are below 2^31.
U32Of(n) == [hi |-> n \div 65536, lo |-> n % 65536]

Limb(x, i) == (x \div (256 ^ i)) % 256

\* u32 multiplication, wrapping modulo 2^32 (release-build `*`).
MulU32(a, b) ==
  LET p0 == Limb(a, 0) * Limb(b, 0)
      p1 == Limb(a, 0) * Limb(b, 1) + Limb(a, 1) * Limb(b, 0)
      p2 == Limb(a, 0) * Limb(b, 2) + Limb(a, 1) * Limb(b, 1) + Limb(a, 2) * Limb(b, 0)
      p3 == Limb(a, 0) * Limb(b, 3) + Limb(a, 1) * Limb(b, 2)
            + Limb(a, 2) * Limb(b, 1) + Limb(a, 3) * Limb(b, 0)
      c1 == p1 + (p0 \div 256)
      c2 == p2 + (c1 \div 256)
      c3 == p3 + (c2 \div 256)
  IN [hi |-> (c3 % 256) * 256 + (c2 % 256), lo |-> (c1 % 256) * 256 + (p0 % 256)]

\* `keyframe_interval as i32`: reinterpret the 32 bits as two's complement.
AsI32(u) ==
  IF u.hi >= 32768 THEN (u.hi - 65536) * 65536 + u.lo ELSE u.hi * 65536 + u.lo

keyframe_interval == MulU32(fps, target_duration)

\* Mutant of EncodingBranchNew: the MB/s figure is handed over unconverted.
EncodingBranchNewUnscaled(bitrate_mbps, preset, keyint) ==
  [ bitrate_kbps |-> U32Of(bitrate_mbps),
    preset |-> preset,
    intra_period |-> AsI32(keyint) ]

\* EncodingBranch::new: the values given to the encoder's properties.
EncodingBranchNew(bitrate_mbps, preset, keyint) ==
  [ bitrate_kbps |-> MulU32(bitrate_mbps, 1000),
    preset |-> preset,
    intra_period |-> AsI32(keyint) ]

\* The rung being built is number Len(branches)+1; its configuration is
\* recorded when the branch is pushed.
CurRung == Len(branches) + 1

RungNew ==
  /\ Alive /\ mainPc = "rung_new"
  /\ \E ok \in BOOLEAN : mainPc' = Try(ok, "rung_add")
  /\ UNCHANGED << ladder, branches, graph, links, live, handler,
                  subtitle_track_counter, dirs, pipeState, streaming, lastMsg,
                  exitCode, cb >>

\* branch.add_to_pipeline(&pipeline)?
RungAdd ==
  /\ Alive /\ mainPc = "rung_add"
  /\ \E ok \in BOOLEAN :
       /\ mainPc' = Try(ok, "rung_link")
       /\ graph' = IF ok THEN graph \cup EncodingBranchElements(CurRung) ELSE graph
  /\ UNCHANGED << ladder, branches, links, live, handler,
                  subtitle_track_counter, dirs, pipeState, streaming, lastMsg,
                  exitCode, cb >>

\* branch.link(&tee, &dashsink)?; branches.push(branch)
RungLink ==
  /\ Alive /\ mainPc = "rung_link"
  /\ LET s == EncodingBranchLinks(CurRung) IN
     \E envFail \in 1..(Len(s) + 1) :
       LET stop == FirstFailure(s, graph, envFail)
           ok == stop = Len(s) + 1 IN
       /\ links' = links \cup LinksMade(s, stop)
       /\ mainPc' = Try(ok, "rung_next")
       /\ branches' = IF ok
            THEN Append(branches,
                   EncodingBranchNew(ladder[CurRung], encoder_preset, keyframe_interval))
            ELSE branches
  /\ UNCHANGED << ladder, graph, live, handler,
                  subtitle_track_counter, dirs, pipeState, streaming, lastMsg,
                  exitCode, cb >>

\* decodebin.connect_pad_added(move |_dbin, src_pad| {...})
ConnectPadAdded ==
  /\ Alive /\ mainPc = "connect"
  /\ handler' = TRUE
  /\ mainPc' = "set_playing"
  /\ UNCHANGED << ladder, branches, graph, links, live,
                  subtitle_track_counter, dirs, pipeState, streaming, lastMsg,
                  exitCode, cb >>

ActivePcs ==
  { "check", "link", "sub_fetch",
    "sub_add_tee", "sub_pad_link", "sub_new", "sub_add_branch", "sub_link" }

CallbackRunning == \E t \in Threads : cb[t].pc \in ActivePcs

\* pipeline.set_state(gst::State::Playing)?
SetPlaying ==
  /\ Alive /\ mainPc = "set_playing"
  /\ \E outcome \in {"ok", "fail", "fail_started"} :
       /\ mainPc' = Try(outcome = "ok", "loop")
       /\ pipeState' = IF outcome = "ok" THEN "Playing" ELSE "PlayFailed"
       /\ streaming' = (outcome # "fail")
  /\ UNCHANGED << ladder, branches, graph, links, live, handler,
                  subtitle_track_counter, dirs, lastMsg, exitCode, cb >>

\* for msg in bus.iter_timed(NONE): one arm of the match per action.
BusEos ==
  /\ Alive /\ mainPc = "loop"
  /\ lastMsg' = "eos"
  /\ mainPc' = "cleanup"
  /\ UNCHANGED << ladder, branches, graph, links, live, handler,
                  subtitle_track_counter, dirs, pipeState, streaming, exitCode, cb >>

BusError ==
  /\ Alive /\ mainPc = "loop"
  /\ lastMsg' = "error"
  /\ mainPc' = "cleanup"
  /\ UNCHANGED << ladder, branches, graph, links, live, handler,
                  subtitle_track_counter, dirs, pipeState, streaming, exitCode, cb >>

\* Mutant of BusStateChanged: the arm breaks out of the loop.
BusStateChangedBreaks ==
  /\ Alive /\ mainPc = "loop"
  /\ lastMsg' = "state-changed"
  /\ mainPc' = "cleanup"
  /\ UNCHANGED << ladder, branches, graph, links, live, handler,
                  subtitle_track_counter, dirs, pipeState, streaming, exitCode, cb >>

BusStateChanged ==
  /\ Alive /\ mainPc = "loop"
  /\ lastMsg' = "state-changed"
  /\ UNCHANGED << mainPc, ladder, branches, graph, links, live, handler,
                  subtitle_track_counter, dirs, pipeState, streaming, exitCode, cb >>

BusOther ==
  /\ Alive /\ mainPc = "loop"
  /\ lastMsg' = "other"
  /\ UNCHANGED << mainPc, ladder, branches, graph, links, live, handler,
                  subtitle_track_counter, dirs, pipeState, streaming, exitCode, cb >>

\* pipeline.set_state(gst::State::Null)?  Going to Null joins the streaming
\* threads, so it returns Ok only once no closure is running.
Cleanup ==
  /\ Alive /\ mainPc = "cleanup"
  /\ \E ok \in BOOLEAN :
       /\ ok => ~CallbackRunning
       /\ mainPc' = Try(ok, "ret_ok")
       /\ pipeState' = IF ok THEN "Null" ELSE "NullFailed"
       /\ streaming' = IF ok THEN FALSE ELSE streaming
  /\ UNCHANGED << ladder, branches, graph, links, live, handler,
                  subtitle_track_counter, dirs, lastMsg, exitCode, cb >>

\* main returns: its locals (pipeline, tee, audio_queue1, ...) are dropped.
Return ==
  /\ Alive /\ mainPc \in {"ret_ok", "ret_err"}
  /\ live' = {}
  /\ mainPc' = IF mainPc = "ret_ok" THEN "dropped_ok" ELSE "dropped_err"
  /\ UNCHANGED << ladder, branches, graph, links, handler,
                  subtitle_track_counter, dirs, pipeState, streaming, lastMsg,
                  exitCode, cb >>

\* The runtime turns main's Result into the exit status: Ok(()) is 0.
Exit ==
  /\ Alive /\ mainPc \in {"dropped_ok", "dropped_err"}
  /\ exitCode' = IF mainPc = "dropped_ok" THEN 0 ELSE 1
  /\ mainPc' = "exited"
  /\ UNCHANGED << ladder, branches, graph, links, live, handler,
                  subtitle_track_counter, dirs, pipeState, streaming, lastMsg, cb >>

\* ------------------------------------------------- the pad-added closure
\* A panic (unwrap/expect) inside the closure unwinds into the engine's C
\* frames: the process aborts.
Panic(t) ==
  /\ cb' = [cb EXCEPT ![t].pc = "panicked"]
  /\ exitCode' = AbortStatus

NextPcOf(kind) ==
  CASE kind = "Video" -> "check"
    [] kind = "Audio" -> "check"
    [] kind = "Subtitle" -> "sub_fetch"
    [] OTHER -> "done"

\* Mutant of Upgraded: the closure keeps strong references and never sees
\* the graph as gone.
UpgradedAlways(lv) == TRUE

\* The three weak references upgrade.
Upgraded(lv) == {"tee", "audio_queue1", "pipeline"} \subseteq lv

\* Port q has been announced.  Ports with the same caps are numbered in the
\* order the demultiplexer first exposes them.
Exposed(q) == \E t \in Threads : cb[t].port = q

\* The engine emits pad-added for port p on streaming thread t; the closure
\* upgrades its weak references, reads the pad's caps and picks its arm.
\* None of this touches shared state, so it is one step.
PadAdded(t, p) ==
  /\ Alive /\ streaming /\ handler
  /\ cb[t].pc = "idle"
  /\ t > 1 => cb[t - 1].pc # "idle"
  /\ \A q \in Ports : (q < p /\ PortCaps[q] = PortCaps[p]) => Exposed(q)
  /\ IF ~Upgraded(live)
     THEN /\ cb' = [cb EXCEPT ![t] = [IdleCb EXCEPT !.pc = "gone", !.port = p]]
          /\ UNCHANGED exitCode
     ELSE IF PortCaps[p] = {}
     THEN /\ cb' = [cb EXCEPT ![t] = [IdleCb EXCEPT !.pc = "panicked", !.port = p]]
          /\ exitCode' = AbortStatus
     ELSE LET name == CHOOSE n \in PortCaps[p] : TRUE
              kind == Classify(name) IN
          /\ cb' = [cb EXCEPT ![t] =
                      [IdleCb EXCEPT !.pc = NextPcOf(kind), !.port = p, !.kind = kind]]
          /\ UNCHANGED exitCode
  /\ UNCHANGED << mainVars, subtitle_track_counter, dirs >>

\* Mutant of SinkOf: the audio arm was pasted from the video arm and still
\* names the tee.
SinkOfAlwaysTee(kind) == tee

\* The pre-built input the closure links a video / audio port to.
SinkOf(kind) == IF kind = "Video" THEN tee ELSE audio_queue1

\* if !sink_pad.is_linked() { ... }
CbCheck(t) ==
  /\ Alive /\ cb[t].pc = "check"
  /\ cb' = [cb EXCEPT ![t].pc =
              IF is_linked(links, SinkOf(cb[t].kind)) THEN "done" ELSE "link"]
  /\ UNCHANGED << mainVars, subtitle_track_counter, dirs, exitCode >>

\* Mutant of CbLink: the closure unlinks whatever is on the input, then links.
CbLinkRelink(t) ==
  /\ Alive /\ cb[t].pc = "link"
  /\ links' = { l \in links : l[2] # SinkOf(cb[t].kind) }
                \cup { <<SrcPad(cb[t].port), SinkOf(cb[t].kind)>> }
  /\ cb' = [cb EXCEPT ![t].pc = "done", ![t].linked = TRUE]
  /\ UNCHANGED << mainPc, ladder, branches, graph, live, handler, pipeState,
                  streaming, lastMsg, subtitle_track_counter, dirs, exitCode >>

\* src_pad.link(&sink_pad).expect("Failed to link ...")
CbLink(t) ==
  /\ Alive /\ cb[t].pc = "link"
  /\ IF PadLinkOk(links, SrcPad(cb[t].port), SinkOf(cb[t].kind))
     THEN /\ links' = PadLink(links, SrcPad(cb[t].port), SinkOf(cb[t].kind))
          /\ cb' = [cb EXCEPT ![t].pc = "done", ![t].linked = TRUE]
          /\ UNCHANGED exitCode
     ELSE /\ Panic(t)
          /\ UNCHANGED links
  /\ UNCHANGED << mainPc, ladder, branches, graph, live, handler, pipeState,
                  streaming, lastMsg, subtitle_track_counter, dirs >>

\* Mutant of fetch_add: the incremented value is never stored.
fetch_add_lost(c) == [old |-> c, new |-> c]

\* AtomicUsize::fetch_add(1, SeqCst): the value before, the value after.
fetch_add(c) == [old |-> c, new |-> c + 1]

CbSubFetch(t) ==
  /\ Alive /\ cb[t].pc = "sub_fetch"
  /\ cb' = [cb EXCEPT ![t].track = fetch_add(subtitle_track_counter).old,
                      ![t].pc = "sub_add_tee"]
  /\ subtitle_track_counter' = fetch_add(subtitle_track_counter).new
  /\ UNCHANGED << mainVars, dirs, exitCode >>

\* Mutant of CbSubAddTee: the closure goes on to build the branch without
\* linking the discovered pad.
CbSubAddTeeSkipsPadLink(t) ==
  /\ Alive /\ cb[t].pc = "sub_add_tee"
  /\ graph' = graph \cup {Sub(cb[t].track, "subtitle_tee")}
  /\ cb' = [cb EXCEPT ![t].pc = "sub_new"]
  /\ UNCHANGED << mainPc, ladder, branches, links, live, handler, pipeState,
                  streaming, lastMsg, subtitle_track_counter, dirs, exitCode >>

\* ElementFactory::make("tee").name("subtitle_tee_<id>").build().unwrap();
\* pipeline.add(&subtitle_tee).unwrap(): the bin refuses a name it has.
CbSubAddTee(t) ==
  /\ Alive /\ cb[t].pc = "sub_add_tee"
  /\ LET e == Sub(cb[t].track, "subtitle_tee") IN
     \E made \in BOOLEAN :
       IF made /\ e \notin graph
       THEN /\ graph' = graph \cup {e}
            /\ cb' = [cb EXCEPT ![t].pc = "sub_pad_link"]
            /\ UNCHANGED exitCode
       ELSE Panic(t) /\ UNCHANGED graph
  /\ UNCHANGED << mainPc, ladder, branches, links, live, handler, pipeState,
                  streaming, lastMsg, subtitle_track_counter, dirs >>

\* Mutant of CbSubPadLink: the subtitle arm first clears the video tee's
\* sink pad, then links the port to the new tee.
CbSubPadLinkUnlinksTee(t) ==
  /\ Alive /\ cb[t].pc = "sub_pad_link"
  /\ links' = { l \in links : l[2] # tee }
                \cup { <<SrcPad(cb[t].port), Sub(cb[t].track, "subtitle_tee")>> }
  /\ cb' = [cb EXCEPT ![t].pc = "sub_new"]
  /\ UNCHANGED << mainPc, ladder, branches, graph, live, handler, pipeState,
                  streaming, lastMsg, subtitle_track_counter, dirs, exitCode >>

\* src_pad.link(&subtitle_tee.static_pad("sink").unwrap()).unwrap()
CbSubPadLink(t) ==
  /\ Alive /\ cb[t].pc = "sub_pad_link"
  /\ LET e == Sub(cb[t].track, "subtitle_tee") IN
     IF PadLinkOk(links, SrcPad(cb[t].port), e)
     THEN /\ links' = PadLink(links, SrcPad(cb[t].port), e)
          /\ cb' = [cb EXCEPT ![t].pc = "sub_new"]
          /\ UNCHANGED exitCode
     ELSE Panic(t) /\ UNCHANGED links
  /\ UNCHANGED << mainPc, ladder, branches, graph, live, handler, pipeState,
                  streaming, lastMsg, subtitle_track_counter, dirs >>

\* SubtitleBranch::new(..).unwrap(): create_dir_all, then five element builds.
CbSubNew(t) ==
  /\ Alive /\ cb[t].pc = "sub_new"
  /\ \E outcome \in {"ok", "dir_err", "make_err"} :
       /\ dirs' = IF outcome = "dir_err" THEN dirs ELSE dirs \cup {cb[t].track}
       /\ IF outcome = "ok"
          THEN cb' = [cb EXCEPT ![t].pc = "sub_add_branch"] /\ UNCHANGED exitCode
          ELSE Panic(t)
  /\ UNCHANGED << mainVars, subtitle_track_counter >>

\* subtitle_branch.add_to_pipeline(&pipeline).unwrap()
CbSubAddBranch(t) ==
  /\ Alive /\ cb[t].pc = "sub_add_branch"
  /\ LET es == SubtitleBranchElements(cb[t].track) IN
     IF es \cap graph = {}
     THEN /\ graph' = graph \cup es
          /\ cb' = [cb EXCEPT ![t].pc = "sub_link"]
          /\ UNCHANGED exitCode
     ELSE Panic(t) /\ UNCHANGED graph
  /\ UNCHANGED << mainPc, ladder, branches, links, live, handler, pipeState,
                  streaming, lastMsg, subtitle_track_counter, dirs >>

\* subtitle_branch.link(&subtitle_tee).unwrap()
CbSubLink(t) ==
  /\ Alive /\ cb[t].pc = "sub_link"
  /\ LET s == SubtitleBranchLinks(cb[t].track) IN
     \E envFail \in 1..(Len(s) + 1) :
       LET stop == FirstFailure(s, graph, envFail) IN
       /\ links' = links \cup LinksMade(s, stop)
       /\ IF stop = Len(s) + 1
          THEN cb' = [cb EXCEPT ![t].pc = "done"] /\ UNCHANGED exitCode
          ELSE Panic(t)
  /\ UNCHANGED << mainPc, ladder, branches, graph, live, handler, pipeState,
                  streaming, lastMsg, subtitle_track_counter, dirs >>

\* ---------------------------------------------------------- specifications
NextMain ==
  \/ Setup \/ MakeBase \/ AddBase \/ LinkStatic
  \/ RungNext \/ RungNew \/ RungAdd \/ RungLink
  \/ ConnectPadAdded \/ SetPlaying
  \/ BusEos \/ BusError \/ BusStateChanged \/ BusOther
  \/ Cleanup \/ Return \/ Exit

NextCb ==
  \/ \E t \in Threads, p \in Ports : PadAdded(t, p)
  \/ \E t \in Threads : CbCheck(t)
  \/ \E t \in Threads : CbLink(t)
  \/ \E t \in Threads : CbSubFetch(t)
  \/ \E t \in Threads : CbSubAddTee(t)
  \/ \E t \in Threads : CbSubPadLink(t)
  \/ \E t \in Threads : CbSubNew(t)
  \/ \E t \in Threads : CbSubAddBranch(t)
  \/ \E t \in Threads : CbSubLink(t)

Next == NextMain \/ NextCb

Spec == Init /\ [][Next]_vars

\* The builder and the supervisor alone, over every ladder up to MaxLadder.
SpecLadder == InitLadder /\ [][NextMain]_vars

\* ------------------------------------------------------------ properties
\* The Supervisor's state, read off main's position and the event that
\* ended the loop.
Supervisor ==
  CASE mainPc = "loop" -> "Running"
    [] mainPc = "cleanup" /\ lastMsg = "eos" -> "Completed"
    [] mainPc = "cleanup" /\ lastMsg = "error" -> "Failed"
    [] mainPc \in { "setup", "make_base", "add_base", "link_static", "rung_next",
                    "rung_new", "rung_add", "rung_link", "connect", "set_playing" }
         -> "Idle"
    [] OTHER -> "Terminated"

InputStages == {tee, audio_queue1}

\* C1: the video splitter's sink and the audio chain's first queue's sink
\* each go from unlinked to linked at most once and never back: once an
\* input has a peer it keeps exactly that peer, and never has two.
C1_InputLinkedAtMostOnce ==
  [][ \A s \in InputStages :
        /\ Cardinality(SinkPeers(links', s)) <= 1
        /\ SinkPeers(links, s) # {} => SinkPeers(links', s) = SinkPeers(links, s)
    ]_vars

\* The video input is linked and a later callback for another video port
\* has run to completion without linking.
C1_Witness ==
  \E t, u \in Threads :
    /\ cb[t].kind = "Video" /\ cb[t].linked
    /\ cb[u].kind = "Video" /\ cb[u].pc = "done" /\ ~cb[u].linked
    /\ cb[u].port # cb[t].port
    /\ SinkPeers(links, tee) = {SrcPad(cb[t].port)}

\* C2 (as claimed): no video or audio callback ever fails, and of the
\* callbacks of one kind that have finished exactly one performed the link.
C2_LinkAttemptNeverFails ==
  /\ \A t \in Threads :
       cb[t].kind \in {"Video", "Audio"} => cb[t].pc # "panicked"
  /\ \A k \in {"Video", "Audio"} :
       LET ofKind == { t \in Threads : cb[t].kind = k }
           linkers == { t \in ofKind : cb[t].linked }
       IN /\ Cardinality(linkers) <= 1
          /\ (\E t \in ofKind : cb[t].pc = "done") => Cardinality(linkers) = 1

\* What the claim says each port's descriptor classifies as.
ExpectedKind ==
  << "Video", "Video", "Audio", "Audio", "Subtitle", "Subtitle",
     "Ignored", "none" >>

\* C3: video/ gives Video, audio/ gives Audio, text/ and subtitle/ give
\* Subtitle, any other name gives Ignored; an Ignored port ends the callback
\* at once with no link, no counter increment and no change to the graph.
C3_Classification ==
  [][ \A t \in Threads :
        (cb[t].pc = "idle" /\ cb'[t].pc \notin {"idle", "gone", "panicked"}) =>
          /\ cb'[t].kind = ExpectedKind[cb'[t].port]
          /\ cb'[t].kind = "Ignored" =>
               /\ cb'[t].pc = "done"
               /\ UNCHANGED << graph, links, subtitle_track_counter, dirs, exitCode >>
    ]_vars

\* A port named "video" (no slash) has been ignored.
C3_Witness ==
  \E t \in Threads :
    /\ cb[t].kind = "Ignored" /\ cb[t].pc = "done"
    /\ PortCaps[cb[t].port] = {VideoNoSlash}
    /\ ~cb[t].linked /\ cb[t].track = -1

Tracked == { t \in Threads : cb[t].track # -1 }

\* C4: the identifiers handed to the k subtitle callbacks that have passed
\* fetch_add are pairwise distinct and are exactly 0..k-1, and the counter
\* never decreases.
C4_TrackIdsDistinctContiguous ==
  /\ [](/\ { cb[t].track : t \in Tracked } = 0..(Cardinality(Tracked) - 1)
        /\ \A t, u \in Tracked : cb[t].track = cb[u].track => t = u
        /\ subtitle_track_counter = Cardinality(Tracked))
  /\ [][subtitle_track_counter' >= subtitle_track_counter]_vars

\* Two subtitle callbacks both hold an identifier.
C4_Witness ==
  /\ Cardinality(Tracked) >= 2
  /\ \E t, u \in Tracked : cb[t].track = 0 /\ cb[u].track = 1

\* The builder ran to its end: the closure is about to be or has been connected.
BuilderSucceeded == mainPc = "connect" \/ handler

RungIds == { e[2] : e \in { x \in graph : x[1] = "rung" } }

\* C5: for a ladder of N entries a successful build leaves exactly N rungs,
\* each fed by the splitter and each with exactly one link into the
\* packager, which together with the audio chain has N+1 inputs.
C5_LadderRungs ==
  BuilderSucceeded =>
    /\ Len(branches) = Len(ladder)
    /\ RungIds = 1..Len(ladder)
    /\ \A i \in 1..Len(ladder) :
         /\ EncodingBranchElements(i) \subseteq graph
         /\ SinkPeers(links, Rung(i, "queue1")) = {tee}
         /\ \A e \in EncodingBranchElements(i) :
              dashsink \in SrcPeers(links, e) <=> e = Rung(i, "queue4")
    /\ Cardinality(SrcPeers(links, tee)) = Len(ladder)
    /\ Cardinality(SinkPeers(links, dashsink)) = Len(ladder) + 1
    /\ Base("audio_queue3") \in SinkPeers(links, dashsink)

\* The graph has been started with at least two rungs.
C5_Witness ==
  /\ pipeState = "Playing"
  /\ Len(ladder) >= 2
  /\ Len(branches) = Len(ladder)

\* C6 (as claimed): exit status 0 only after end-of-stream, and a run ended
\* by an error event exits non-zero.
C6_ExitStatus ==
  /\ exitCode = 0 => lastMsg = "eos"
  /\ (mainPc = "exited" /\ lastMsg = "error") => exitCode # 0

\* C7: while Running, end-of-stream gives Completed, error gives Failed,
\* every other event leaves Running; Completed and Failed never turn into
\* each other.
C7_SupervisorTransitions ==
  [][ /\ Supervisor = "Running" =>
           /\ lastMsg' = "eos" => Supervisor' = "Completed"
           /\ lastMsg' = "error" => Supervisor' = "Failed"
           /\ lastMsg' \notin {"eos", "error"} => Supervisor' = "Running"
      /\ Supervisor = "Completed" => Supervisor' \in {"Completed", "Terminated"}
      /\ Supervisor = "Failed" => Supervisor' \in {"Failed", "Terminated"}
      /\ Supervisor # "Running" /\ Supervisor' = "Running" => Supervisor = "Idle"
    ]_vars

\* An error event has moved the Supervisor from Running to Failed.
C7_Witness == Supervisor = "Failed" /\ pipeState = "Playing"

EnteredRunning == pipeState \in {"Playing", "Null", "NullFailed"}
TeardownExecuted == pipeState \in {"Null", "NullFailed"}

\* C8 (as claimed): a process that entered Running and has ended has
\* executed set_state(Null), and that only after a terminal event.
C8_TeardownOnEveryEnd ==
  /\ (exitCode # -1 /\ EnteredRunning) => TeardownExecuted
  /\ TeardownExecuted => lastMsg \in {"eos", "error"}

\* The links a sequence of link statements makes when none fails.
AllLinks(s) == { s[j] : j \in DOMAIN s }

StaticGraphComplete ==
  /\ BaseElements \subseteq graph
  /\ AllLinks(StaticLinks) \subseteq links
  /\ \A i \in 1..Len(ladder) :
       /\ EncodingBranchElements(i) \subseteq graph
       /\ AllLinks(EncodingBranchLinks(i)) \subseteq links

\* C9: set_state(Playing) is requested only on a complete static graph; a
\* build that failed never requests it and exits non-zero.
C9_StartOnlyAfterCompleteBuild ==
  /\ pipeState # "Initial" => StaticGraphComplete
  /\ (mainPc = "exited" /\ pipeState = "Initial") => exitCode = 1
  /\ (mainPc \in {"ret_err", "dropped_err"} /\ ~StaticGraphComplete) => pipeState = "Initial"

\* A build that broke part-way has ended with status 1, never started.
C9_Witness ==
  /\ mainPc = "exited" /\ exitCode = 1 /\ pipeState = "Initial"
  /\ BaseElements \subseteq graph
  /\ ~StaticGraphComplete

\* C10 (as claimed): a subtitle port whose setup fails is ignored: the
\* process is not aborted and no directory of that track exists.
C10_SubtitleFailureRecoverable ==
  \A t \in Threads :
    (cb[t].kind = "Subtitle" /\ cb[t].pc = "panicked") =>
      /\ exitCode # AbortStatus
      /\ cb[t].track \notin dirs

\* C11: a callback that fires when the pipeline, the tee or audio_queue1 is
\* gone returns at once, whatever the port: no link, no counter increment,
\* no subtitle directory, no element added, no failure.
C11_GoneDoesNothing ==
  [][ \A t \in Threads :
        (cb[t].pc = "idle" /\ cb'[t].pc # "idle"
           /\ \E o \in {"pipeline", "tee", "audio_queue1"} : o \notin live) =>
          /\ cb'[t].pc = "gone"
          /\ ~cb'[t].linked /\ cb'[t].track = -1
          /\ UNCHANGED << graph, links, subtitle_track_counter, dirs, exitCode >>
    ]_vars

\* A subtitle port was announced after main dropped the graph.
C11_Witness ==
  \E t \in Threads :
    /\ cb[t].pc = "gone"
    /\ PortCaps[cb[t].port] = {TextRaw}
    /\ live = {}
    /\ subtitle_track_counter = 0 /\ dirs = {}

\* C12: every pushed rung carries target-bitrate = 1000 times its own
\* ladder entry and intra-period-length = fps * target_duration, neither
\* wrapped; for the ladder <<6, 2>> that is 6000 and 2000 with 120 for both.
C12_RungConfiguration ==
  /\ \A i \in 1..Len(branches) :
       /\ branches[i].bitrate_kbps = [hi |-> 0, lo |-> ladder[i] * 1000]
       /\ branches[i].intra_period = fps * target_duration
       /\ branches[i].intra_period = 120
  /\ (ladder = <<6, 2>> /\ Len(branches) = 2) =>
       /\ branches[1].bitrate_kbps = [hi |-> 0, lo |-> 6000]
       /\ branches[2].bitrate_kbps = [hi |-> 0, lo |-> 2000]

\* Both rungs of the ladder <<6, 2>> have been built and pushed.
C12_Witness ==
  /\ ladder = <<6, 2>>
  /\ Len(branches) = 2
  /\ mainPc = "connect"

StaticKinds == {"base", "rung"}

\* C13: once set_state(Playing) has been requested the elements and the
\* links only grow; elements are added only by the closure and only into
\* subtitle sub-graphs; links are added only by the closure, either inside
\* a subtitle sub-graph or from a discovered port to a pre-built input;
\* main's loop and teardown change neither; and a step of the subtitle arm
\* adds no link that touches a base or rung element.
C13_TopologyOnlyGrows ==
  [][ pipeState # "Initial" =>
        /\ graph \subseteq graph'
        /\ links \subseteq links'
        /\ \A e \in graph' \ graph : e[1] = "sub"
        /\ \A l \in links' \ links :
             \/ l[1][1] = "sub" \/ l[2][1] = "sub"
             \/ (l[1][1] = "port" /\ l[2] \in InputStages)
        /\ (graph' # graph \/ links' # links) =>
             (cb' # cb /\ UNCHANGED << mainPc, pipeState, lastMsg >>)
        /\ \A t \in Threads :
             (cb[t].kind = "Subtitle" /\ cb'[t] # cb[t]) =>
               \A l \in links' \ links :
                 l[1][1] \notin StaticKinds /\ l[2][1] \notin StaticKinds
    ]_vars

\* A subtitle branch has been inserted and partly linked while the video
\* input is linked and both rungs are in place.
C13_Witness ==
  /\ is_linked(links, tee)
  /\ \E t \in Threads :
       /\ cb[t].kind = "Subtitle"
       /\ SubtitleBranchElements(cb[t].track) \subseteq graph
       /\ <<Sub(cb[t].track, "queue"), Sub(cb[t].track, "text_overlay")>> \in links
  /\ \A i \in 1..Len(ladder) : <<tee, Rung(i, "queue1")>> \in links

SubThreads == { t \in Threads : cb[t].kind = "Subtitle" }
PortLinked(t) == <<SrcPad(cb[t].port), Sub(cb[t].track, "subtitle_tee")>> \in links
TeeInserted(t) == Sub(cb[t].track, "subtitle_tee") \in graph
BranchBuilt(t) == cb[t].track \in dirs
BranchInserted(t) == SubtitleBranchElements(cb[t].track) \subseteq graph
BranchLinked(t) == <<Sub(cb[t].track, "subtitle_tee"), Sub(cb[t].track, "queue")>> \in links

\* C14 (as claimed): the discovered port is linked to the new splitter only
\* after both the splitter and the branch have been inserted.
C14_PortLinkedAfterBothInserted ==
  \A t \in SubThreads :
    (cb[t].track # -1 /\ PortLinked(t)) => (TeeInserted(t) /\ BranchInserted(t))

\* C14 (amended): the subtitle arm allocates the id, then makes and inserts
\* the splitter, then links the port to it, then builds the branch, then
\* inserts it, then links splitter to branch; the port is linked with the
\* splitter inserted and the branch not yet built.
C14_SubtitleStepOrder ==
  /\ [](\A t \in SubThreads :
          /\ cb[t].pc = "sub_fetch" <=> cb[t].track = -1
          /\ cb[t].track # -1 =>
               /\ PortLinked(t) => TeeInserted(t)
               /\ BranchBuilt(t) => PortLinked(t)
               /\ BranchInserted(t) => BranchBuilt(t)
               /\ BranchLinked(t) => BranchInserted(t))
  /\ [][ \A t \in Threads :
           (cb[t].pc = "sub_pad_link" /\ cb'[t].pc = "sub_new") =>
             /\ TeeInserted(t)
             /\ ~BranchBuilt(t)
             /\ SubtitleBranchElements(cb[t].track) \cap graph = {}
             /\ <<SrcPad(cb[t].port), Sub(cb[t].track, "subtitle_tee")>> \in links' \ links
       ]_vars

\* A subtitle callback has reached its last step: port linked, branch built
\* and inserted, splitter not yet linked to the branch.
C14_Witness ==
  \E t \in SubThreads :
    /\ cb[t].pc = "sub_link"
    /\ PortLinked(t) /\ TeeInserted(t) /\ BranchBuilt(t) /\ BranchInserted(t)
    /\ ~BranchLinked(t)

Announced == { t \in Threads : cb[t].pc # "idle" }

\* The run of the scenario: ladder <<6, 2>>, exactly one video and one audio
\* port announced, both callbacks returned, end-of-stream handled.
OneVideoOneAudioThenEos ==
  /\ ladder = <<6, 2>>
  /\ Cardinality(Announced) = 2
  /\ \E t, u \in Announced :
       /\ PortCaps[cb[t].port] = {VideoRaw} /\ cb[t].pc = "done"
       /\ PortCaps[cb[u].port] = {AudioRaw} /\ cb[u].pc = "done"
  /\ lastMsg = "eos"

\* C15: in that run the Supervisor is Completed (or already torn down), the
\* process was not aborted, both ports are linked to their inputs, the
\* packager has the two rungs and the audio chain as inputs, the subtitle
\* counter is 0 and no subtitle directory or element exists.
C15_OneVideoOneAudioRun ==
  OneVideoOneAudioThenEos =>
    /\ Supervisor \in {"Completed", "Terminated"}
    /\ exitCode # AbortStatus
    /\ \A t \in Announced : cb[t].linked
    /\ \E t \in Announced : SinkPeers(links, tee) = {SrcPad(cb[t].port)}
    /\ \E t \in Announced : SinkPeers(links, audio_queue1) = {SrcPad(cb[t].port)}
    /\ SinkPeers(links, dashsink)
         = {Rung(1, "queue4"), Rung(2, "queue4"), Base("audio_queue3")}
    /\ Len(branches) = 2
    /\ subtitle_track_counter = 0
    /\ dirs = {}
    /\ \A e \in graph : e[1] # "sub"

\* The scenario has run to a successful exit.
C15_Witness ==
  /\ OneVideoOneAudioThenEos
  /\ mainPc = "exited" /\ exitCode = 0
  /\ pipeState = "Null"

Member(e) == e \in graph \/ e[1] = "port"

\* C17 (as claimed): every link that exists joins two members of the graph
\* (or a discovered port and a member), and when SubtitleBranch::link runs
\* every stage it links, its inner splitter and inner queues included, is a
\* member of the graph.
C17_LinkedStagesAreMembers ==
  /\ \A l \in links : Member(l[1]) /\ Member(l[2])
  /\ \A t \in Threads :
       cb[t].pc = "sub_link" =>
         \A i \in 1..Len(SubtitleBranchLinks(cb[t].track)) :
           /\ Member(SubtitleBranchLinks(cb[t].track)[i][1])
           /\ Member(SubtitleBranchLinks(cb[t].track)[i][2])

\* C18: the closure is connected only on a complete static graph and before
\* set_state(Playing) is requested: whenever it is connected, whenever the
\* graph has been asked to start and whenever a port has been announced, the
\* closure is in place and every static element and link exists.
C18_HandlerAfterBuildBeforeStart ==
  /\ handler => StaticGraphComplete
  /\ (mainPc \in {"setup", "make_base", "add_base", "link_static", "rung_next",
                  "rung_new", "rung_add", "rung_link", "connect"})
       => (~handler /\ pipeState = "Initial" /\ ~streaming)
  /\ (pipeState # "Initial" \/ streaming) => handler
  /\ \A t \in Threads : cb[t].pc # "idle" => handler

\* A video port announced after the start has been routed onto the complete
\* static graph.
C18_Witness ==
  /\ handler /\ pipeState = "Playing" /\ StaticGraphComplete
  /\ \E t \in Threads : cb[t].kind = "Video" /\ cb[t].linked /\ cb[t].pc = "done"
  /\ mainPc = "loop"

RoutedTo(s) == { p \in Ports : <<SrcPad(p), s>> \in links }

\* C19: a video (audio) callback that finds its input already linked ends
\* with no link, no element added, no counter change, no directory and no
\* failure; a port of that kind other than the routed one stays unlinked,
\* and at most one port is ever routed to each input.
C19_LaterPortOfSameKindIgnored ==
  /\ [][ \A t \in Threads :
           (cb[t].pc = "check" /\ cb'[t] # cb[t]
              /\ SinkPeers(links, SinkOf(cb[t].kind)) # {}) =>
             /\ cb'[t].pc = "done" /\ ~cb'[t].linked
             /\ UNCHANGED << graph, links, subtitle_track_counter, dirs, exitCode >>
       ]_vars
  /\ [](/\ \A s \in InputStages : Cardinality(RoutedTo(s)) <= 1
        /\ \A t \in Threads :
             (cb[t].kind \in {"Video", "Audio"} /\ cb[t].pc = "done" /\ ~cb[t].linked
                /\ cb[t].port \notin RoutedTo(SinkOf(cb[t].kind)))
               => SrcPeers(links, SrcPad(cb[t].port)) = {})

\* The audio input is linked to one audio port and a callback for a second
\* audio port has returned, leaving that port unlinked.
C19_Witness ==
  \E t, u \in Threads :
    /\ cb[t].kind = "Audio" /\ cb[t].linked
    /\ RoutedTo(audio_queue1) = {cb[t].port}
    /\ cb[u].kind = "Audio" /\ cb[u].pc = "done" /\ ~cb[u].linked
    /\ cb[u].port # cb[t].port
    /\ SrcPeers(links, SrcPad(cb[u].port)) = {}
    /\ exitCode # AbortStatus

====
